---- MODULE Spec2Model ----
(***************************************************************************)
(* Model of src/app.py: the medicine catalog built once from medicines.csv *)
(* at import time (price cleaning, strength filter, key normalisation) and *)
(* the four request handlers that read it: index, get_options, get_details *)
(* and generate_pdf.                                                       *)
(*                                                                         *)
(* Text is a sequence of one-character strings.  Numbers are exact         *)
(* decimals m / 10^e (binary rounding of Python floats is not modelled),   *)
(* extended with nan, inf and -inf.                                        *)
(***************************************************************************)
EXTENDS Integers, Sequences, FiniteSets, TLC

VARIABLES csv, df, df_cleaned, phase, request, response, rendered, pdf_collection

vars == <<csv, df, df_cleaned, phase, request, response, rendered, pdf_collection>>

\* Bounds of the model.
MaxRows == 2
MaxLines == 2
MaxPriceLen == 4
MaxArchive == 1

(***************************************************************************)
(* Characters and Python str methods                                       *)
(***************************************************************************)
Taka == "৳"

\* The characters of the model in code-point order.
CodePoints ==
  << " ", "-", ".", "0", "1", "2", "3", "4", "5", "6", "7", "8", "9", ":",
     "A", "B", "C", "D", "E", "F", "G", "H", "I", "J", "K", "L", "M",
     "N", "O", "P", "Q", "R", "S", "T", "U", "V", "W", "X", "Y", "Z",
     "a", "b", "c", "d", "e", "f", "g", "h", "i", "j", "k", "l", "m",
     "n", "o", "p", "q", "r", "s", "t", "u", "v", "w", "x", "y", "z", Taka >>

Rank ==
  [c \in {CodePoints[i] : i \in 1..Len(CodePoints)} |->
     CHOOSE i \in 1..Len(CodePoints) : CodePoints[i] = c]

\* ord(c), up to the order-preserving renumbering of the table.
Ord(c) == Rank[c]

IsSpace(c) == c = " "
IsDigit(c) == Ord(c) >= Ord("0") /\ Ord(c) <= Ord("9")
IsUpper(c) == Ord(c) >= Ord("A") /\ Ord(c) <= Ord("Z")
IsLower(c) == Ord(c) >= Ord("a") /\ Ord(c) <= Ord("z")
IsCased(c) == IsUpper(c) \/ IsLower(c)
DigitVal(c) == Ord(c) - Ord("0")

LowerChar(c) == IF IsUpper(c) THEN CodePoints[Ord(c) + 26] ELSE c
UpperChar(c) == IF IsLower(c) THEN CodePoints[Ord(c) - 26] ELSE c

\* str.lower()
PyLower(s) == [i \in 1..Len(s) |-> LowerChar(s[i])]

\* str.title(): a cased character is upper-cased when the character before
\* it is not cased, and lower-cased otherwise.
PyTitle(s) ==
  [i \in 1..Len(s) |->
     IF i = 1 \/ ~IsCased(s[i - 1]) THEN UpperChar(s[i]) ELSE LowerChar(s[i])]

RECURSIVE LStrip(_)
LStrip(s) == IF s # <<>> /\ IsSpace(Head(s)) THEN LStrip(Tail(s)) ELSE s

RECURSIVE RStrip(_)
RStrip(s) ==
  IF s # <<>> /\ IsSpace(s[Len(s)]) THEN RStrip(SubSeq(s, 1, Len(s) - 1)) ELSE s

\* str.strip()
PyStrip(s) == RStrip(LStrip(s))

\* s < t in Python's string order (lexicographic by code point).
RECURSIVE StrLess(_, _)
StrLess(s, t) ==
  IF t = <<>> THEN FALSE
  ELSE IF s = <<>> THEN TRUE
  ELSE IF Head(s) # Head(t) THEN Ord(Head(s)) < Ord(Head(t))
  ELSE StrLess(Tail(s), Tail(t))

\* sorted(set of strings) as a sequence.
RECURSIVE SortedSeq(_)
SortedSeq(S) ==
  IF S = {} THEN <<>>
  ELSE LET lo == CHOOSE x \in S : \A y \in S \ {x} : StrLess(x, y)
       IN  <<lo>> \o SortedSeq(S \ {lo})

\* x.count('.')
RECURSIVE Count(_, _)
Count(s, c) ==
  IF s = <<>> THEN 0 ELSE (IF Head(s) = c THEN 1 ELSE 0) + Count(Tail(s), c)

\* x.find(c, start) with Python's 0-based positions; -1 when absent.
Find(s, c, start) ==
  LET hits == {i \in start..(Len(s) - 1) : s[i + 1] = c}
  IN  IF hits = {} THEN -1 ELSE CHOOSE i \in hits : \A j \in hits : i <= j

(***************************************************************************)
(* Numbers                                                                 *)
(***************************************************************************)
NaN  == [k |-> "nan",  m |-> 0, e |-> 0]
PInf == [k |-> "inf",  m |-> 0, e |-> 0]
NInf == [k |-> "-inf", m |-> 0, e |-> 0]
Err  == [k |-> "err",  m |-> 0, e |-> 0]

RECURSIVE Pow10(_)
Pow10(n) == IF n = 0 THEN 1 ELSE 10 * Pow10(n - 1)

\* The decimal m / 10^e in lowest form.
RECURSIVE Fin(_, _)
Fin(m, e) ==
  IF e > 0 /\ m % 10 = 0 THEN Fin(m \div 10, e - 1)
  ELSE [k |-> "fin", m |-> m, e |-> e]

Zero == Fin(0, 0)

IsFin(x) == x.k = "fin"
Sign(x) ==
  CASE x.k = "inf"  -> 1
    [] x.k = "-inf" -> -1
    [] x.k = "fin"  -> (IF x.m > 0 THEN 1 ELSE IF x.m < 0 THEN -1 ELSE 0)
    [] OTHER        -> 0

IsNegative(x) == Sign(x) < 0

\* float * float
FMul(x, y) ==
  IF x.k = "nan" \/ y.k = "nan" THEN NaN
  ELSE IF IsFin(x) /\ IsFin(y) THEN Fin(x.m * y.m, x.e + y.e)
  ELSE IF Sign(x) * Sign(y) = 0 THEN NaN
  ELSE IF Sign(x) * Sign(y) > 0 THEN PInf ELSE NInf

\* float + float
FAdd(x, y) ==
  IF x.k = "nan" \/ y.k = "nan" THEN NaN
  ELSE IF IsFin(x) /\ IsFin(y)
    THEN LET e == IF x.e > y.e THEN x.e ELSE y.e
         IN  Fin(x.m * Pow10(e - x.e) + y.m * Pow10(e - y.e), e)
  ELSE IF IsFin(x) THEN y
  ELSE IF IsFin(y) THEN x
  ELSE IF x = y THEN x ELSE NaN

RECURSIVE DigitsVal(_)
DigitsVal(s) ==
  IF s = <<>> THEN 0 ELSE 10 * DigitsVal(SubSeq(s, 1, Len(s) - 1)) + DigitVal(s[Len(s)])

AllDigits(s) == \A i \in 1..Len(s) : IsDigit(s[i])

\* An unsigned decimal literal: digits with at most one point and at least
\* one digit ("1.", ".5" and "1.5" parse, "." and "" do not).
ParseUnsigned(s) ==
  LET p == Find(s, ".", 0)
      ip == IF p = -1 THEN s ELSE SubSeq(s, 1, p)
      fp == IF p = -1 THEN <<>> ELSE SubSeq(s, p + 2, Len(s))
  IN  IF AllDigits(ip) /\ AllDigits(fp) /\ Len(ip) + Len(fp) > 0
        THEN Fin(DigitsVal(ip \o fp), Len(fp))
        ELSE Err

\* The number a string spells: surrounding blanks, an optional sign, then
\* nan, inf, infinity or a decimal literal.  Err when it spells none.
ParseNumber(s) ==
  LET t    == PyStrip(s)
      neg  == t # <<>> /\ Head(t) = "-"
      body == IF neg THEN Tail(t) ELSE t
      word == PyLower(body)
      mag  == IF word = <<"n", "a", "n">> THEN NaN
              ELSE IF word \in {<<"i", "n", "f">>,
                                <<"i", "n", "f", "i", "n", "i", "t", "y">>} THEN PInf
              ELSE ParseUnsigned(body)
  IN  IF ~neg \/ mag.k \in {"err", "nan"} THEN mag
      ELSE IF mag.k = "inf" THEN NInf
      ELSE Fin(-mag.m, mag.e)

(***************************************************************************)
(* medicines.csv and the frames built from it                              *)
(***************************************************************************)
\* A cell as pandas reads it: a string, or NaN for an empty field.
NA == [na |-> TRUE, s |-> <<>>]
Cell(s) == [na |-> FALSE, s |-> s]

\* astype(str): NaN becomes the text 'nan'.
AsStr(c) == IF c.na THEN <<"n", "a", "n">> ELSE c.s

\* Where a match of  :\s*৳\s*  that starts at position j (1-based) ends,
\* or 0 when none starts there.
RECURSIVE SkipSpaces(_, _)
SkipSpaces(s, i) == IF i <= Len(s) /\ IsSpace(s[i]) THEN SkipSpaces(s, i + 1) ELSE i

MarkerEnd(s, j) ==
  IF s[j] # ":" THEN 0
  ELSE LET k == SkipSpaces(s, j + 1)
       IN  IF k <= Len(s) /\ s[k] = Taka THEN SkipSpaces(s, k + 1) - 1 ELSE 0

\* str.replace(r'.*?:\s*৳\s*', '', regex=True): every leftmost match (the
\* shortest prefix that reaches a marker, and the marker) is deleted.
RECURSIVE StripLabel(_)
StripLabel(s) ==
  LET starts == {j \in 1..Len(s) : MarkerEnd(s, j) # 0}
  IN  IF starts = {} THEN s
      ELSE LET j == CHOOSE a \in starts : \A b \in starts : a <= b
           IN  StripLabel(SubSeq(s, MarkerEnd(s, j) + 1, Len(s)))

KeepsDigitOrDot(c) == IsDigit(c) \/ c = "."

\* str.replace(r'[^\d\.]', '', regex=True)
KeepDigitsDots(s) == SelectSeq(s, KeepsDigitOrDot)

\* Series.replace('', '0')
EmptyToZero(s) == IF s = <<>> THEN <<"0">> ELSE s

\* x[:x.find('.')] : cut at the first point instead of the second.
FixMultiDotAtFirst(x) ==
  IF Count(x, ".") <= 1 THEN x ELSE SubSeq(x, 1, Find(x, ".", 0))

\* lambda x: x if x.count('.') <= 1 else x[:x.find('.', x.find('.') + 1)]
FixMultiDot(x) ==
  IF Count(x, ".") <= 1 THEN x
  ELSE SubSeq(x, 1, Find(x, ".", Find(x, ".", 0) + 1))

\* pd.to_numeric(..., errors='coerce'): NaN for what does not parse.
ToNumeric(x) == LET r == ParseNumber(x) IN IF r = Err THEN NaN ELSE r

\* The column without .fillna(0.0).
FillNaSkipped(v) == v

\* .fillna(0.0)
FillNa(v) == IF v = NaN THEN Zero ELSE v

\* The Price_Clean column of one row.
PriceClean(price) ==
  FillNa(ToNumeric(FixMultiDot(EmptyToZero(KeepDigitsDots(StripLabel(AsStr(price)))))))

NoFrame == [columns |-> FALSE, rows |-> <<>>]

\* df = pd.read_csv(csv_path) with the Price_Clean column added.
RawFrame(rows) ==
  [columns |-> TRUE,
   rows |-> [i \in 1..Len(rows) |->
               [Generic |-> rows[i].Generic, Strength |-> rows[i].Strength,
                Type |-> rows[i].Type, Brand |-> rows[i].Brand,
                MedicineName |-> rows[i].MedicineName, Price |-> rows[i].Price,
                Price_Clean |-> PriceClean(rows[i].Price)]]]

HasStrength(r) == ~r.Strength.na

\* The text columns of a kept row, normalised.
CleanRow(r) ==
  [Generic |-> r.Generic,
   Generic_Clean |-> PyLower(PyStrip(AsStr(r.Generic))),
   Strength |-> PyStrip(AsStr(r.Strength)),
   Type |-> PyStrip(AsStr(r.Type)),
   Brand |-> r.Brand, MedicineName |-> r.MedicineName,
   Price |-> r.Price, Price_Clean |-> r.Price_Clean]

\* df.dropna(subset=['Strength']) and the normalised text columns.
CleanFrame(frame) ==
  LET kept == SelectSeq(frame.rows, HasStrength)
  IN  [columns |-> TRUE, rows |-> [i \in 1..Len(kept) |-> CleanRow(kept[i])]]

\* The module-level try/except: a missing or unreadable file leaves
\* df_cleaned = pd.DataFrame(), a frame without columns or rows.
Load ==
  /\ phase = "start"
  /\ phase' = "serving"
  /\ IF csv.kind = "table"
       THEN /\ df' = RawFrame(csv.rows)
            /\ df_cleaned' = CleanFrame(RawFrame(csv.rows))
       ELSE /\ df' = NoFrame
            /\ df_cleaned' = NoFrame
  /\ UNCHANGED <<csv, request, response, rendered, pdf_collection>>

(***************************************************************************)
(* Request payloads (JSON) and Python conversions                          *)
(***************************************************************************)
\* A JSON value under a key: absent, null, a string or a number.
Absent == [t |-> "absent", s |-> <<>>, n |-> Zero]
JNull  == [t |-> "null",   s |-> <<>>, n |-> Zero]
JStr(s) == [t |-> "str", s |-> s, n |-> Zero]
JNum(n) == [t |-> "num", s |-> <<>>, n |-> n]

\* dict.get(key, default)
Get(v, default) == IF v.t = "absent" THEN default ELSE v

\* float(v): Err stands for the TypeError / ValueError it raises.
PyFloat(v) ==
  CASE v.t = "num" -> v.n
    [] v.t = "str" -> ParseNumber(v.s)
    [] OTHER       -> Err

\* int(v): a number is truncated toward zero (nan and inf raise); a string
\* must spell an integer.
PyInt(v) ==
  CASE v.t = "num" ->
         IF ~IsFin(v.n) THEN Err
         ELSE IF v.n.m >= 0 THEN Fin(v.n.m \div Pow10(v.n.e), 0)
         ELSE Fin(-((-v.n.m) \div Pow10(v.n.e)), 0)
    [] v.t = "str" ->
         LET r == ParseNumber(v.s)
         IN  IF IsFin(r) /\ Count(v.s, ".") = 0 THEN r ELSE Err
    [] OTHER -> Err

\* data.get(key, '').strip() : Err stands for the AttributeError raised
\* when the value is not a string.
StripField(v) ==
  LET x == Get(v, JStr(<<>>))
  IN  IF x.t = "str" THEN JStr(PyStrip(x.s)) ELSE JNull

RECURSIVE IntToStr(_)
IntToStr(n) ==
  IF n < 10 THEN <<CodePoints[Ord("0") + n]>>
  ELSE IntToStr(n \div 10) \o <<CodePoints[Ord("0") + (n % 10)]>>

\* f"৳ {x:.2f}" for a non-negative finite x, rounded to the nearest
\* hundredth (a tie is rounded up here; Python decides it by the binary
\* expansion, which the decimal model does not carry).
FormatPrice(x) ==
  LET cents == IF x.e <= 2 THEN x.m * Pow10(2 - x.e)
               ELSE (x.m + 5 * Pow10(x.e - 3)) \div Pow10(x.e - 2)
  IN  <<Taka, " ">> \o IntToStr(cents \div 100) \o <<".">>
        \o IntToStr((cents % 100) \div 10) \o IntToStr(cents % 10)

NoRequest == [handler |-> "none"]
NoResponse == [status |-> 0]
NoDoc == [handed |-> FALSE]

\* The application is imported and no request is being handled.
Idle == phase = "serving" /\ request = NoRequest

\* df_cleaned.empty
FrameEmpty(frame) == ~frame.columns \/ frame.rows = <<>>

ColumnSet(rows, col) == {rows[i][col] : i \in 1..Len(rows)}

\* Flask serves a request inside a request context and drops the context
\* once the handler has returned: request, response and the document handed
\* to the renderer live for one request, the catalog and the archive stay.
EndRequest ==
  /\ request # NoRequest
  /\ request' = NoRequest
  /\ response' = NoResponse
  /\ rendered' = NoDoc
  /\ UNCHANGED <<csv, df, df_cleaned, phase, pdf_collection>>

(***************************************************************************)
(* GET /                                                                   *)
(***************************************************************************)
index ==
  /\ Idle
  /\ request' = [handler |-> "index"]
  /\ response' =
       IF FrameEmpty(df_cleaned)
         THEN [status |-> 200, error |-> TRUE, generic_options |-> <<>>]
         ELSE LET keys == SortedSeq(ColumnSet(df_cleaned.rows, "Generic_Clean"))
              IN  [status |-> 200, error |-> FALSE,
                   generic_options |-> [i \in 1..Len(keys) |-> PyTitle(keys[i])]]
  /\ rendered' = NoDoc
  /\ UNCHANGED <<csv, df, df_cleaned, phase, pdf_collection>>

(***************************************************************************)
(* POST /get_options                                                       *)
(***************************************************************************)
OptionsFailed == [status |-> 500, error |-> "Failed to fetch options"]

\* df_cleaned[df_cleaned['Generic_Clean'] == generic]
FilterGeneric(frame, generic) ==
  SelectSeq(frame.rows, LAMBDA r : r.Generic_Clean = generic)

\* The handler without its early return for an empty generic.
GetOptionsWithoutEarlyReturn(data) ==
  LET g == StripField(data.generic)
  IN  IF ~data.object \/ g.t # "str" \/ ~df_cleaned.columns THEN OptionsFailed
      ELSE LET filtered == FilterGeneric(df_cleaned, PyLower(g.s))
           IN  [status |-> 200,
                strengths |-> SortedSeq(ColumnSet(filtered, "Strength")),
                types |-> SortedSeq(ColumnSet(filtered, "Type"))]

GetOptionsResponse(data) ==
  LET g == StripField(data.generic)
  IN  IF ~data.object \/ g.t # "str" THEN OptionsFailed
      ELSE IF PyLower(g.s) = <<>>
        THEN [status |-> 200, strengths |-> <<>>, types |-> <<>>]
      ELSE IF ~df_cleaned.columns THEN OptionsFailed
      ELSE LET filtered == FilterGeneric(df_cleaned, PyLower(g.s))
           IN  [status |-> 200,
                strengths |-> SortedSeq(ColumnSet(filtered, "Strength")),
                types |-> SortedSeq(ColumnSet(filtered, "Type"))]

get_options(data) ==
  /\ Idle
  /\ request' = [handler |-> "get_options", data |-> data]
  /\ response' = GetOptionsResponse(data)
  /\ rendered' = NoDoc
  /\ UNCHANGED <<csv, df, df_cleaned, phase, pdf_collection>>

(***************************************************************************)
(* POST /get_details                                                       *)
(***************************************************************************)
DetailsFailed == [status |-> 500, error |-> "Failed to fetch medicine details"]
NoBrands == [status |-> 404, error |-> "No brands found."]

\* A mask that accepts every strength the requested one is a prefix of
\* (str.startswith in place of ==).
MatchesPrefix(r, generic, strength, drug_type) ==
  /\ r.Generic_Clean = generic
  /\ Len(r.Strength) >= Len(strength)
  /\ SubSeq(r.Strength, 1, Len(strength)) = strength
  /\ r.Type = drug_type

\* The row mask of get_details.
Matches(r, generic, strength, drug_type) ==
  /\ r.Generic_Clean = generic
  /\ r.Strength = strength
  /\ r.Type = drug_type

BrandOption(row) ==
  [generic |-> PyTitle(row.Generic_Clean),
   medicine_name |-> row.MedicineName,
   brand |-> row.Brand,
   price |-> FormatPrice(row.Price_Clean),
   price_raw |-> row.Price_Clean,
   strength |-> row.Strength,
   type |-> row.Type,
   quantity |-> 1,
   time_schedule |-> "1+1+1",
   meal_time |-> "After Meal"]

GetDetailsResponse(data) ==
  LET g == StripField(data.generic)
      s == StripField(data.strength)
      t == StripField(data.type)
  IN  IF ~data.object \/ g.t # "str" \/ s.t # "str" \/ t.t # "str" THEN DetailsFailed
      ELSE IF ~df_cleaned.columns THEN DetailsFailed
      ELSE LET df_filtered ==
                 SelectSeq(df_cleaned.rows,
                           LAMBDA r : Matches(r, PyLower(g.s), s.s, t.s))
           IN  IF df_filtered = <<>> THEN NoBrands
               ELSE [status |-> 200,
                     options |-> [i \in 1..Len(df_filtered) |->
                                    BrandOption(df_filtered[i])]]

\* The handler with the filtered frame assigned to the global df_cleaned.
get_details_keeps_filter(data) ==
  /\ Idle
  /\ request' = [handler |-> "get_details", data |-> data]
  /\ response' = GetDetailsResponse(data)
  /\ rendered' = NoDoc
  /\ df_cleaned' =
       IF response'.status = 200
         THEN [df_cleaned EXCEPT !.rows = SelectSeq(df_cleaned.rows,
                 LAMBDA r : Matches(r, PyLower(StripField(data.generic).s),
                                    StripField(data.strength).s,
                                    StripField(data.type).s))]
         ELSE df_cleaned
  /\ UNCHANGED <<csv, df, phase, pdf_collection>>

get_details(data) ==
  /\ Idle
  /\ request' = [handler |-> "get_details", data |-> data]
  /\ response' = GetDetailsResponse(data)
  /\ rendered' = NoDoc
  /\ UNCHANGED <<csv, df, df_cleaned, phase, pdf_collection>>

(***************************************************************************)
(* POST /generate_pdf                                                      *)
(***************************************************************************)
\* jsonify({"error": str(e)}), 500
BuildFailed == [status |-> 500, error |-> "str(e)"]

\* float(m.get('price_raw', 0)) * int(m.get('quantity', 1)); Err when
\* either conversion raises.
PriceLine(m) ==
  LET price == PyFloat(Get(m.price_raw, JNum(Zero)))
      qty   == PyInt(Get(m.quantity, JNum(Fin(1, 0))))
  IN  IF price = Err \/ qty = Err THEN Err ELSE FMul(price, qty)

\* An except branch that only skips the line (pass) and leaves the
\* subtotal the client sent.
LoopBodySkipsBadLine(m, total) ==
  LET sub == PriceLine(m)
  IN  IF sub = Err
        THEN [m |-> m, total |-> total]
        ELSE [m |-> [m EXCEPT !.subtotal = JNum(sub)], total |-> FAdd(total, sub)]

\* One pass of the loop over a line that is a JSON object.
LoopBody(m, total) ==
  LET sub == PriceLine(m)
  IN  IF sub = Err
        THEN [m |-> [m EXCEPT !.subtotal = JNum(Zero)], total |-> total]
        ELSE [m |-> [m EXCEPT !.subtotal = JNum(sub)], total |-> FAdd(total, sub)]

\* for m in medicines: ...   A line that is not an object has no .get and
\* takes no item assignment: the TypeError raised inside the except branch
\* leaves the loop and the handler's try block.
RECURSIVE PriceLines(_, _, _)
PriceLines(todo, done, total) ==
  IF todo = <<>> THEN [raised |-> FALSE, medicines |-> done, total_cost |-> total]
  ELSE IF ~Head(todo).dict
    THEN [raised |-> TRUE, medicines |-> done, total_cost |-> total]
  ELSE LET step == LoopBody(Head(todo), total)
       IN  PriceLines(Tail(todo), Append(done, step.m), step.total)

Iterable(medicines) == medicines.t \in {"absent", "list"}

\* The keyword arguments of render_template('prescription.html', ...);
\* sex, patient_id, specialization, reg_no and phone are read and passed
\* exactly as age is, current_date is the wall clock.
Document(data, priced) ==
  [handed |-> TRUE,
   patient_name |-> Get(data.patient_name, JStr(<<"U", "n", "k", "n", "o", "w", "n">>)),
   age |-> Get(data.age, JStr(<<>>)),
   doctor_name |-> Get(data.doctor_name,
                       JStr(<<"D", "r", ".", " ", "U", "n", "k", "n", "o", "w", "n">>)),
   next_appointment |-> Get(data.next_appointment,
                            JStr(<<"A", "s", " ", "A", "d", "v", "i", "s", "e", "d">>)),
   medicines |-> priced.medicines,
   total_cost |-> priced.total_cost]

EmptyObject ==
  [shape |-> "object", patient_name |-> Absent, age |-> Absent,
   doctor_name |-> Absent, next_appointment |-> Absent,
   medicines |-> [t |-> "absent", items |-> <<>>], total_cost |-> Absent]

\* outcome is what the collaborators do once the document is handed over:
\* "ok", or "failed" when render_template, write_pdf or insert_one raises.
generate_pdf(body, outcome) ==
  /\ Idle
  /\ request' = [handler |-> "generate_pdf", data |-> body]
  /\ \E data \in {IF body.shape = "emptylist" THEN EmptyObject ELSE body} :
     \E priced \in {PriceLines(data.medicines.items, <<>>, Zero)} :
         IF body.shape = "other" \/ ~Iterable(data.medicines) \/ priced.raised
           THEN /\ rendered' = NoDoc
                /\ response' = BuildFailed
                /\ UNCHANGED pdf_collection
           ELSE /\ rendered' = Document(data, priced)
                /\ IF outcome = "ok"
                     THEN /\ Len(pdf_collection) < MaxArchive
                          /\ response' = [status |-> 200,
                                          download_name |-> rendered'.patient_name]
                          /\ pdf_collection' =
                               Append(pdf_collection,
                                      [patient_name |-> rendered'.patient_name,
                                       doctor_name |-> rendered'.doctor_name])
                     ELSE /\ response' = BuildFailed
                          /\ UNCHANGED pdf_collection
  /\ UNCHANGED <<csv, df, df_cleaned, phase>>

(***************************************************************************)
(* Inputs                                                                  *)
(***************************************************************************)
SeqsUpTo(S, n) == UNION {[1..k -> S] : k \in 0..n}

PriceText == <<Taka, " ", "5", ".", "0", "0">>

\* Raw rows of the catalog file: keys with stray blanks and mixed case,
\* strengths that are missing, blank or present, two dosage forms.
RawRows ==
  {[Generic |-> g, Strength |-> st[1], Type |-> st[2], Brand |-> Cell(<<"N">>),
    MedicineName |-> NA, Price |-> Cell(PriceText)] :
     g \in {Cell(<<"N", "a", " ">>), Cell(<<"B">>)},
     st \in {<<NA, Cell(<<"T">>)>>, <<Cell(<<" ">>), Cell(<<"T">>)>>,
             <<Cell(<<"5">>), Cell(<<"T">>)>>, <<Cell(<<"5">>), Cell(<<"S", " ">>)>>}}

Table(rows) == [kind |-> "table", rows |-> rows]

\* medicines.csv: absent, without parsable content, or a table.
CsvFiles ==
  {[kind |-> "missing", rows |-> <<>>], [kind |-> "empty", rows |-> <<>>]}
    \cup {Table(rows) : rows \in SeqsUpTo(RawRows, MaxRows)}

\* Raw prices: every text of bounded length over the characters the
\* cleaning steps tell apart, and the two prices the design names.
PriceAlphabet == {"1", "5", ".", ":", Taka, " ", "-", "x"}

LabelledPrice == <<"P", "r", "i", "c", "e", ":", " ", Taka, " ", "1", "0", ".", "2", "5">>
MultiDotPrice == <<"1", "0", ".", "2", "5", "6", ".", "0", "0">>

PriceCells ==
  {NA, Cell(LabelledPrice), Cell(MultiDotPrice)}
    \cup {Cell(x) : x \in SeqsUpTo(PriceAlphabet, MaxPriceLen)}

PriceFiles ==
  {Table(<<[Generic |-> Cell(<<"N", "a">>), Strength |-> s, Type |-> Cell(<<"T">>),
            Brand |-> Cell(<<"N">>), MedicineName |-> NA, Price |-> p]>>) :
     p \in PriceCells, s \in {NA, Cell(<<"5">>)}}

\* The one-record catalog of the end-to-end scenario.
ScenarioFile ==
  Table(<<[Generic |-> Cell(<<"P", "a", "r", "a", "c", "e", "t", "a", "m", "o", "l">>),
           Strength |-> Cell(<<"5", "0", "0", "m", "g">>),
           Type |-> Cell(<<"T", "a", "b", "l", "e", "t">>),
           Brand |-> Cell(<<"N", "a", "p", "a">>), MedicineName |-> Cell(<<"N", "a", "p", "a">>),
           Price |-> Cell(PriceText)]>>)

NotAnObject ==
  [object |-> FALSE, generic |-> Absent, strength |-> Absent, type |-> Absent]

OptionsBodies ==
  {NotAnObject}
    \cup {[object |-> TRUE, generic |-> g, strength |-> Absent, type |-> Absent] :
            g \in {Absent, JNull, JStr(<<>>), JStr(<<" ">>), JStr(<<"n", "a">>),
                   JStr(<<" ", "N", "A">>), JStr(<<"x">>)}}

DetailsBodies ==
  {NotAnObject}
    \cup {[object |-> TRUE, generic |-> g, strength |-> s, type |-> t] :
            g \in {Absent, JNull, JStr(<<"n", "a">>), JStr(<<"N", "a", " ">>), JStr(<<"b">>)},
            s \in {Absent, JStr(<<"5">>), JStr(<<" ", "5">>)},
            t \in {JStr(<<"T">>), JStr(<<"S">>), JStr(<<"t">>)}}

Line(p, q, s) == [dict |-> TRUE, price_raw |-> p, quantity |-> q, subtotal |-> s]
NotALine == [dict |-> FALSE, price_raw |-> Absent, quantity |-> Absent, subtotal |-> Absent]

Body(shape, name, medicines, total) ==
  [shape |-> shape, patient_name |-> name, age |-> Absent, doctor_name |-> Absent,
   next_appointment |-> Absent, medicines |-> medicines, total_cost |-> total]

Medicines(items) == [t |-> "list", items |-> items]
NoMedicines(t) == [t |-> t, items |-> <<>>]

\* Medicine lines: prices and quantities that parse, that do not, that
\* are missing, and quantities that are not positive.
\* Every line but the first carries a subtotal of 999 sent by the client.
BuildLines ==
  {NotALine, Line(JStr(<<"1", "2", ".", "5", "0">>), JNum(Fin(3, 0)), Absent)}
    \cup {Line(p, q, JNum(Fin(999, 0))) :
            p \in {Absent, JStr(<<"1", "2", ".", "5", "0">>), JStr(<<"a", "b", "c">>),
                   JNum(Fin(-5, 0)), JNum(PInf)},
            q \in {Absent, JNum(Fin(3, 0)), JNum(Zero), JNum(Fin(-2, 0)),
                   JNum(Fin(27, 1)), JStr(<<"x">>)}}

\* The client also sends a total of 1.
BuildBodies ==
  {Body("object", Absent, Medicines(items), JNum(Fin(1, 0))) :
     items \in SeqsUpTo(BuildLines, MaxLines)}

\* A few build requests of every shape for the runs about the catalog.
SomeBuildBodies ==
  {Body("other", Absent, NoMedicines("absent"), Absent),
   Body("emptylist", Absent, NoMedicines("absent"), Absent),
   Body("object", Absent, NoMedicines("null"), Absent),
   Body("object", Absent, NoMedicines("absent"), Absent),
   Body("list", JStr(<<"A", "l">>),
        Medicines(<<Line(JNum(Fin(5, 0)), JNum(Fin(2, 0)), Absent)>>), Absent),
   Body("object", JStr(<<"A", "l">>),
        Medicines(<<Line(JNum(Fin(5, 0)), JNum(Fin(2, 0)), Absent), NotALine>>), Absent)}

Outcomes == {"ok", "failed"}

(***************************************************************************)
(* Specifications                                                          *)
(***************************************************************************)
Boot(file) ==
  /\ csv = file
  /\ df = NoFrame
  /\ df_cleaned = NoFrame
  /\ phase = "start"
  /\ request = NoRequest
  /\ response = NoResponse
  /\ rendered = NoDoc
  /\ pdf_collection = <<>>

\* The application: any catalog file, every handler.
Init == \E file \in CsvFiles : Boot(file)

Next ==
  \/ Load
  \/ Idle /\ index
  \/ Idle /\ \E data \in OptionsBodies : get_options(data)
  \/ Idle /\ \E data \in DetailsBodies : get_details(data)
  \/ Idle /\ \E body \in SomeBuildBodies, outcome \in Outcomes : generate_pdf(body, outcome)
  \/ EndRequest

Spec == Init /\ [][Next]_vars

\* The load step alone, over every raw price.
InitLoad == \E file \in PriceFiles : Boot(file)

NextLoad == Load

SpecLoad == InitLoad /\ [][NextLoad]_vars

\* Prescription builds over every list of medicine lines.
InitBuild == Boot(ScenarioFile)

NextBuild ==
  \/ Load
  \/ Idle /\ \E body \in BuildBodies, outcome \in Outcomes : generate_pdf(body, outcome)
  \/ EndRequest

SpecBuild == InitBuild /\ [][NextBuild]_vars

(***************************************************************************)
(* Properties                                                              *)
(***************************************************************************)
Building == request.handler = "generate_pdf"

\* The medicine lines the client sent with the build request in progress.
SentLines ==
  IF request.data.shape = "emptylist" THEN <<>> ELSE request.data.medicines.items

\* The quantity of a sent line as the handler reads it.
SentQuantity(m) == PyInt(Get(m.quantity, JNum(Fin(1, 0))))

\* The subtotals of the lines of a document, added from the first line on.
RECURSIVE SumSubtotals(_)
SumSubtotals(lines) ==
  IF lines = <<>> THEN Zero
  ELSE FAdd(SumSubtotals(SubSeq(lines, 1, Len(lines) - 1)), lines[Len(lines)].subtotal.n)

\* What the server computes for a line from its price and quantity alone.
Recomputed(m) ==
  LET bare == [m EXCEPT !.subtotal = Absent]
  IN  IF PriceLine(bare) = Err THEN Zero ELSE PriceLine(bare)

\* The price of a sent line is missing or spells a finite number >= 0.
PriceIsValid(m) ==
  LET price == PyFloat(Get(m.price_raw, JNum(Zero)))
  IN  IsFin(price) /\ price.m >= 0

\* C1: in a document handed to rendering, a line with a valid price whose
\* quantity is zero or negative has subtotal 0, and no line with a valid
\* price has a negative subtotal (so none lowers the total).
C1_NonPositiveQuantityChargesNothing ==
  rendered.handed =>
    \A i \in 1..Len(rendered.medicines) :
      PriceIsValid(SentLines[i]) =>
        /\ (SentQuantity(SentLines[i]) # Err /\ SentQuantity(SentLines[i]).m <= 0
              => rendered.medicines[i].subtotal = JNum(Zero))
        /\ ~IsNegative(rendered.medicines[i].subtotal.n)

\* C2: the total handed to rendering is the sum of the subtotals of the
\* lines handed to rendering, and each of those subtotals is the one the
\* server computes from the line's price and quantity, whatever subtotal
\* or total the client sent.
C2_TotalIsSumOfRecomputedSubtotals ==
  rendered.handed =>
    /\ Len(rendered.medicines) = Len(SentLines)
    /\ rendered.total_cost = SumSubtotals(rendered.medicines)
    /\ \A i \in 1..Len(rendered.medicines) :
         rendered.medicines[i].subtotal = JNum(Recomputed(SentLines[i]))

\* A document of two lines, one of which failed to parse and came with a
\* client subtotal, whose total differs from the total the client sent.
C2_Witness ==
  /\ rendered.handed
  /\ Len(rendered.medicines) = 2
  /\ \E i \in 1..2 : /\ PriceLine(SentLines[i]) = Err
                     /\ SentLines[i].subtotal = JNum(Fin(999, 0))
                     /\ rendered.medicines[i].subtotal = JNum(Zero)
  /\ \E i \in 1..2 : rendered.medicines[i].subtotal = JNum(Fin(375, 1))
  /\ request.data.total_cost = JNum(Fin(1, 0))
  /\ rendered.total_cost = Fin(375, 1)

\* C3: a build request whose medicines are a list is handed to rendering
\* with every line kept, whatever the lines are: a line that cannot be
\* priced has subtotal 0 and the others are priced.
C3_MalformedLineNeverAborts ==
  (Building /\ request.data.shape = "object" /\ request.data.medicines.t = "list") =>
    /\ rendered.handed
    /\ Len(rendered.medicines) = Len(SentLines)
    /\ \A i \in 1..Len(SentLines) :
         IF SentLines[i].dict /\ PriceLine(SentLines[i]) # Err
           THEN rendered.medicines[i].subtotal = JNum(PriceLine(SentLines[i]))
           ELSE rendered.medicines[i].subtotal = JNum(Zero)

\* A raw price without any digit: missing, empty, label-only or dot-only.
HasNoDigit(price) == price.na \/ \A i \in 1..Len(price.s) : ~IsDigit(price.s[i])

\* C4: after the load step every raw row has a Price_Clean that is a
\* finite number >= 0, and it is 0 when the raw price holds no digit.
C4_PriceCleanIsTotal ==
  (phase = "serving" /\ csv.kind = "table") =>
    /\ df.columns
    /\ Len(df.rows) = Len(csv.rows)
    /\ \A i \in 1..Len(df.rows) :
         /\ IsFin(df.rows[i].Price_Clean)
         /\ df.rows[i].Price_Clean.m >= 0
         /\ (HasNoDigit(csv.rows[i].Price) => df.rows[i].Price_Clean = Zero)

\* The raw price ".." has been cleaned to 0.
C4_Witness ==
  /\ phase = "serving"
  /\ csv.rows[1].Price = Cell(<<".", ".">>)
  /\ df.rows[1].Price_Clean = Zero

\* The text before the first point of x, and the text between the first
\* and the second.
FirstGroup(x) == SubSeq(x, 1, Find(x, ".", 0))
RECURSIVE UpToPoint(_)
UpToPoint(x) == IF x = <<>> \/ Head(x) = "." THEN <<>> ELSE <<Head(x)>> \o UpToPoint(Tail(x))
SecondGroup(x) == UpToPoint(SubSeq(x, Len(FirstGroup(x)) + 2, Len(x)))

IsMultiDot(price) ==
  /\ ~price.na
  /\ \A i \in 1..Len(price.s) : IsDigit(price.s[i]) \/ price.s[i] = "."
  /\ Count(price.s, ".") > 1

GroupsValue(x) ==
  IF FirstGroup(x) \o SecondGroup(x) = <<>> THEN Zero
  ELSE Fin(DigitsVal(FirstGroup(x) \o SecondGroup(x)), Len(SecondGroup(x)))

\* C5 as stated: the raw price "10.256.00" is cleaned to 10.25.
C5_MultiDotPriceIs10_25 ==
  (phase = "serving" /\ csv.rows[1].Price = Cell(MultiDotPrice)) =>
    df.rows[1].Price_Clean = Fin(1025, 2)

\* C5 amended: a raw price of digits with more than one point is cleaned to
\* the number its first two digit groups spell, first.second, and the rest
\* is discarded: "10.256.00" is cleaned to 10.256.
C5_MultiDotKeepsFirstTwoGroups ==
  phase = "serving" =>
    \A i \in 1..Len(df.rows) :
      /\ IsMultiDot(csv.rows[i].Price) =>
           df.rows[i].Price_Clean = GroupsValue(csv.rows[i].Price.s)
      /\ csv.rows[i].Price = Cell(MultiDotPrice) =>
           df.rows[i].Price_Clean = Fin(10256, 3)

C5_Witness ==
  /\ phase = "serving"
  /\ csv.rows[1].Price = Cell(MultiDotPrice)
  /\ df.rows[1].Price_Clean = Fin(10256, 3)

\* A string field of a query as the handlers normalise it ('' when absent).
Normal(v) == IF v.t = "absent" THEN <<>> ELSE PyStrip(v.s)

IsText(v) == v.t \in {"absent", "str"}

\* The catalog rows whose three keys equal the normalised query fields.
ExactMatches(data) ==
  {i \in 1..Len(df_cleaned.rows) :
     /\ df_cleaned.rows[i].Generic_Clean = PyLower(Normal(data.generic))
     /\ df_cleaned.rows[i].Strength = Normal(data.strength)
     /\ df_cleaned.rows[i].Type = Normal(data.type)}

\* The k-th smallest element of a set of numbers.
RECURSIVE Kth(_, _)
Kth(S, k) ==
  LET lo == CHOOSE x \in S : \A y \in S : x <= y
  IN  IF k = 1 THEN lo ELSE Kth(S \ {lo}, k - 1)

\* C6: on a loaded catalog a detail query with text fields answers 404 when
\* no row equals the normalised query on all three keys, and otherwise 200
\* with one option per such row, in catalog order, and none for other rows.
C6_DetailsAreExactMatches ==
  (request.handler = "get_details" /\ df_cleaned.columns /\ request.data.object
     /\ IsText(request.data.generic) /\ IsText(request.data.strength)
     /\ IsText(request.data.type)) =>
    LET hits == ExactMatches(request.data)
    IN  IF hits = {} THEN response = NoBrands
        ELSE /\ response.status = 200
             /\ Len(response.options) = Cardinality(hits)
             /\ \A k \in 1..Len(response.options) :
                  LET row == df_cleaned.rows[Kth(hits, k)]
                  IN  /\ response.options[k].strength = row.Strength
                      /\ response.options[k].type = row.Type
                      /\ response.options[k].generic = PyTitle(row.Generic_Clean)
                      /\ response.options[k].brand = row.Brand
                      /\ response.options[k].price_raw = row.Price_Clean

\* A query written " 5" / "Na " that picks one of two catalog rows.
C6_Witness ==
  /\ request.handler = "get_details"
  /\ request.data.generic = JStr(<<"N", "a", " ">>)
  /\ request.data.strength = JStr(<<" ", "5">>)
  /\ Len(df_cleaned.rows) = 2
  /\ response.status = 200
  /\ Len(response.options) = 1

\* C7: a filter query whose generic is missing or empty is answered with
\* two empty lists and status 200, whatever the catalog is.
C7_EmptyGenericGivesEmptyLists ==
  (request.handler = "get_options" /\ request.data.object
     /\ request.data.generic \in {Absent, JStr(<<>>)}) =>
    response = [status |-> 200, strengths |-> <<>>, types |-> <<>>]

\* The query without a generic, answered while the catalog failed to load.
C7_Witness ==
  /\ request.handler = "get_options"
  /\ request.data.object
  /\ request.data.generic = Absent
  /\ csv.kind = "missing"
  /\ response.status = 200

\* C8: after the load step no catalog row has an empty strength.
C8_NoEmptyStrengthInCatalog ==
  phase = "serving" =>
    \A i \in 1..Len(df_cleaned.rows) : df_cleaned.rows[i].Strength # <<>>

\* The catalog the load step produces from the file.
LoadedCatalog ==
  IF csv.kind = "table" THEN CleanFrame(RawFrame(csv.rows)) ELSE NoFrame

\* C9: once loaded, the catalog is the one the load step produced, after
\* any sequence of requests.
C9_CatalogNeverMutated == phase = "serving" => df_cleaned = LoadedCatalog

\* A detail query has been answered from a two-row catalog after a
\* prescription was built and archived.
C9_Witness ==
  /\ request.handler = "get_details"
  /\ response.status = 200
  /\ pdf_collection # <<>>
  /\ Len(df_cleaned.rows) = 2
  /\ df_cleaned = LoadedCatalog

\* C10: when the file is missing or unreadable, the generic list shows the
\* no-data state, a filter query with a generic gets two empty lists and a
\* detail query gets 404.
C10_FailedLoadStillAnswers ==
  (phase = "serving" /\ csv.kind # "table") =>
    /\ request.handler = "index" => response.status = 200 /\ response.error
    /\ (request.handler = "get_options" /\ request.data.object
          /\ request.data.generic.t = "str") =>
         response = [status |-> 200, strengths |-> <<>>, types |-> <<>>]
    /\ (request.handler = "get_details" /\ request.data.object
          /\ IsText(request.data.generic) /\ IsText(request.data.strength)
          /\ IsText(request.data.type)) =>
         response = NoBrands

====
